---- MODULE Spec2Model ----
(***************************************************************************)
(* A model of the catalog loader of sxscatalog: Simulations.load,          *)
(* Simulations.reload, Simulations.local (simulations/simulations.py) and  *)
(* download_file (utilities/downloads.py), acting on the cache directory   *)
(* and on the class attribute Simulations._simulations of each Python      *)
(* process.                                                                *)
(*                                                                         *)
(* A file name of the cache directory "simulations_<x>" is the sequence of *)
(* the dot-separated components of <x>: simulations_v1.bz2 is              *)
(* <<"v1", "bz2">>, simulations_v1.temp.json.part is                       *)
(* <<"v1", "temp", "json", "part">>.                                       *)
(***************************************************************************)
EXTENDS Integers, Sequences, FiniteSets, TLC

\* How many times download_file may be answered with a one-line URL file
\* (each makes it call itself once more).
MaxRedirect == 1

\* The client processes sharing one cache directory.
Procs == {1, 2}

\* The versions the release repository knows.
Versions == {1, 2}

\* The spelling "v<n>" of version n, and the spelling without the prefix.
VStr == <<"v1", "v2", "v3">>
BareStr == <<"1", "2", "3">>

----------------------------------------------------------------------------
(* packaging.version.Version, and the f-string "v{Version(tag)}"           *)

\* Version(s): the version number of a string, 0 when s is no version
\* (packaging raises InvalidVersion).
Version(s) ==
    IF \E n \in DOMAIN VStr : s = VStr[n] \/ s = BareStr[n]
    THEN CHOOSE n \in DOMAIN VStr : s = VStr[n] \/ s = BareStr[n]
    ELSE 0

\* f"v{Version(tag)}" for a valid tag.
NormalizeTag(s) == VStr[Version(s)]

----------------------------------------------------------------------------
(* Paths of the cache directory                                            *)

\* sxs_directory("cache") / f"simulations_{tag}.bz2"
CachePath(tag) == <<tag, "bz2">>

\* pathlib's with_suffix: the last suffix is replaced by the given suffixes.
WithSuffix(name, sfx) == SubSeq(name, 1, Len(name) - 1) \o sfx

TempJson(tag) == WithSuffix(CachePath(tag), <<"temp", "json">>)
TempZip(tag) == WithSuffix(CachePath(tag), <<"temp", "bz2">>)

\* download_file's output_path: local_filename.name + ".part"
PartPath(name) == name \o <<"part">>

AllNames ==
    UNION { { CachePath(VStr[v]), TempJson(VStr[v]), TempZip(VStr[v]),
              PartPath(TempJson(VStr[v])) } : v \in Versions }

\* glob("simulations_*.bz2"): every name whose last suffix is .bz2
GlobBz2(name) == name[Len(name)] = "bz2"

\* f.stem.split("_")[-1] of a globbed file, as the list of its components;
\* Version() of it is valid only for a single component that is a version.
StemVersion(name) ==
    IF Len(name) = 2 THEN Version(name[1]) ELSE 0

----------------------------------------------------------------------------
(* Payloads, file contents, catalogs                                       *)

\* A record of a catalog: key k, where the record comes from, and its
\* DOI_versions field (0: the field is absent).
RemoteItems ==
    << [k |-> 2, src |-> "remote", doi |-> 1],
       [k |-> 1, src |-> "remote", doi |-> 0] >>

\* What the server may send with status 200: the catalog as JSON, a body that
\* is no JSON, or a single line holding a URL.
CatalogBody == [pk |-> "catalog", items |-> RemoteItems]
JunkBody == [pk |-> "junk", items |-> <<>>]
UrlBody == [pk |-> "url", items |-> <<>>]
NoBody == [pk |-> "none", items |-> <<>>]

\* What a scan of an annex directory may return (local_simulations).
LocalScans ==
    { << [k |-> 3, src |-> "local", doi |-> 0],
         [k |-> 2, src |-> "local", doi |-> 2] >>,
      << [k |-> 2, src |-> "local", doi |-> 0],
         [k |-> 1, src |-> "local", doi |-> 2] >>,
      << [k |-> 0, src |-> "local", doi |-> 0] >> }

\* The release listings the GitHub API may answer with.
Listings ==
    { << >>,
      << [tag_name |-> "v1", published_at |-> 1],
         [tag_name |-> "v2", published_at |-> 2] >>,
      << [tag_name |-> "v1", published_at |-> 2],
         [tag_name |-> "v2", published_at |-> 2] >> }

\* A file: kind "raw" (the downloaded text) or "zip" (an archive whose entry
\* simulations.json holds body); complete is FALSE while it is being written.
Absent == [kind |-> "absent", complete |-> FALSE, body |-> NoBody]
File(kind, complete, body) == [kind |-> kind, complete |-> complete, body |-> body]

NoCat == [id |-> 0, items |-> <<>>, tag |-> "", pub |-> 0, cached |-> FALSE, rows |-> {}]
NoRet == [status |-> "none", cat |-> NoCat, err |-> <<>>]
NoLocalFile == [present |-> FALSE, items |-> <<>>]

----------------------------------------------------------------------------
(* The catalog object (an OrderedDict) and the merge                       *)

HasKey(items, k) == \E i \in DOMAIN items : items[i].k = k
IndexOf(items, k) == CHOOSE i \in DOMAIN items : items[i].k = k

\* sorted(sims): the keys in increasing order.
RECURSIVE SortByKey(_)
SortByKey(items) ==
    IF items = <<>> THEN <<>>
    ELSE LET m == CHOOSE i \in DOMAIN items :
                      \A j \in DOMAIN items : items[i].k <= items[j].k
             rest == [j \in 1..(Len(items) - 1) |->
                          IF j < m THEN items[j] ELSE items[j + 1]]
         IN  <<items[m]>> \o SortByKey(rest)

\* Simulations(sims), with the attributes load attaches to it; the object
\* has no _dataframe yet (cached is FALSE). Once it has, rows holds the keys
\* of the rows of that table.
NewCatalog(id, parsed, tag, pub) ==
    [id |-> id, items |-> SortByKey(parsed), tag |-> tag, pub |-> pub,
     cached |-> FALSE, rows |-> {}]

\* A variant that replaces the records of known keys and adds no key.
RECURSIVE DictUpdate_knownOnly(_, _)
DictUpdate_knownOnly(items, new) ==
    IF new = <<>> THEN items
    ELSE LET r == Head(new)
             next == IF HasKey(items, r.k)
                     THEN [items EXCEPT ![IndexOf(items, r.k)] = r]
                     ELSE items
         IN  DictUpdate_knownOnly(next, Tail(new))

\* OrderedDict.update: a key already present keeps its place and takes the new
\* value, a new key is appended.
RECURSIVE DictUpdate(_, _)
DictUpdate(items, new) ==
    IF new = <<>> THEN items
    ELSE LET r == Head(new)
             next == IF HasKey(items, r.k)
                     THEN [items EXCEPT ![IndexOf(items, r.k)] = r]
                     ELSE Append(items, r)
         IN  DictUpdate(next, Tail(new))

\* A variant that sets the captured DOI_versions only on a record lacking it.
RestoreDoi_ifMissing(before, after) ==
    [i \in DOMAIN after |->
        IF /\ HasKey(before, after[i].k)
           /\ before[IndexOf(before, after[i].k)].doi # 0
           /\ after[i].doi = 0
        THEN [after[i] EXCEPT !.doi = before[IndexOf(before, after[i].k)].doi]
        ELSE after[i]]

\* The DOI_versions captured before the update are set again after it.
RestoreDoi(before, after) ==
    [i \in DOMAIN after |->
        IF HasKey(before, after[i].k) /\ before[IndexOf(before, after[i].k)].doi # 0
        THEN [after[i] EXCEPT !.doi = before[IndexOf(before, after[i].k)].doi]
        ELSE after[i]]

\* The tail of Simulations.local: the catalog object itself is updated.
Merge(cat, lrec) ==
    [cat EXCEPT !.items = RestoreDoi(cat.items, DictUpdate(cat.items, lrec))]

\* A variant of max() in which a later entry with an equal key wins.
RECURSIVE MaxBy_lastWins(_, _)
MaxBy_lastWins(best, rest) ==
    IF rest = <<>> THEN best
    ELSE MaxBy_lastWins(IF Head(rest).published_at >= best.published_at
                        THEN Head(rest) ELSE best,
                        Tail(rest))

\* max(releases_data, key=lambda r: r["published_at"]) (line 163): the
\* entries are passed in order, and the one held is given up only for an
\* entry with a greater key.
RECURSIVE MaxBy(_, _)
MaxBy(best, rest) ==
    IF rest = <<>> THEN best
    ELSE MaxBy(IF Head(rest).published_at > best.published_at
               THEN Head(rest) ELSE best,
               Tail(rest))

\* get_latest_release on a non-empty listing (lines 156-164).
GetLatestRelease(listing) == MaxBy(Head(listing), Tail(listing))

----------------------------------------------------------------------------
(* State                                                                   *)

VARIABLES
    fs,         \* the simulations_* files of the cache directory
    localfile,  \* cache/local_simulations.json
    work,       \* what calls each process issues ("off": none)
    slot,       \* Simulations._simulations of each process (NoCat: unset)
    pc,         \* where each process is inside load
    call,       \* the call in progress, or the last one: kind and arguments
    loc,        \* load's local variables
    ret,        \* what the last call returned or raised
    eff,        \* what the call in progress has done so far
    seen,       \* the files the call has listed or opened
    walk,       \* a run of local_simulations over an annex directory
    upload,     \* a call of file_upload_allowed
    table,      \* a catalog and the table Simulations.dataframe makes of it
    metric,     \* a call of MetadataMetric.__call__ on two metadata records
    release     \* a call of get_latest_release on a list of releases

vars == <<fs, localfile, work, slot, pc, call, loc, ret, eff, seen,
          walk, upload, table, metric, release>>

\* The variables the loader leaves alone.
others == <<walk, upload, table, metric, release>>

\* The variables of the loader.
loader == <<fs, localfile, work, slot, pc, call, loc, ret, eff, seen>>

\* No scan, no call of file_upload_allowed, no table.
NoScan ==
    [tree |-> <<>>, todo |-> <<>>, simulations |-> <<>>, log |-> {},
     tried |-> {}, raised |-> "", status |-> "off"]
NoUpload == [file |-> <<>>, listing |-> {}, result |-> "off"]
NoTable == [cat |-> <<>>, df |-> <<>>, columns |-> <<>>, status |-> "off", views |-> <<>>]

\* No call of the metric, no call of get_latest_release.
NoMetric == [cfg |-> <<>>, m1 |-> <<>>, m2 |-> <<>>, status |-> "off", d12 |-> <<>>, d21 |-> <<>>]
NoRelease == [listing |-> <<>>, status |-> "off", result |-> <<>>]

NoLoc ==
    [download |-> "True", tag |-> "", pub |-> 0, depth |-> 0,
     merging |-> FALSE, lrec |-> <<>>, err |-> <<>>]

NoCall ==
    [kind |-> "none", download |-> "None", tag |-> "", local |-> FALSE,
     annex |-> "None", ic |-> FALSE]

\* The arguments of load and reload.
LoadArgs(w) ==
    [kind : {"load"},
     download : IF w = "read" THEN {"False"}
                ELSE IF w = "fetch" THEN {"True"}
                ELSE {"None", "True", "False"},
     tag : IF w = "any" THEN {"", "v1", "2", "bogus"} ELSE {"", "v1"},
     local : IF w = "any" THEN BOOLEAN ELSE {FALSE},
     annex : IF w = "any" THEN {"None", "dir"} ELSE {"None"},
     ic : IF w = "any" THEN BOOLEAN ELSE {FALSE}]

\* The arguments of Simulations.local (directory is held in annex).
LocalArgs(w) ==
    [kind : {"local"},
     download : IF w = "read" THEN {}
                ELSE IF w = "fetch" THEN {"True"}
                ELSE {"None", "True", "False"},
     tag : {""},
     local : {FALSE},
     annex : {"None", "dir"},
     ic : IF w = "any" THEN BOOLEAN ELSE {FALSE}]

InitLoader(w) ==
    /\ fs = [n \in AllNames |-> Absent]
    /\ localfile = NoLocalFile
    /\ work = w
    /\ slot = [p \in Procs |-> NoCat]
    /\ pc = [p \in Procs |-> "idle"]
    /\ call = [p \in Procs |-> NoCall]
    /\ loc = [p \in Procs |-> NoLoc]
    /\ ret = [p \in Procs |-> NoRet]
    /\ eff = [p \in Procs |-> {}]
    /\ seen = [p \in Procs |-> {}]

InitWith(w) ==
    /\ InitLoader(w)
    /\ walk = NoScan
    /\ upload = NoUpload
    /\ table = NoTable
    /\ metric = NoMetric
    /\ release = NoRelease

\* One process, any call.
Init == InitWith([p \in Procs |-> IF p = 1 THEN "any" ELSE "off"])

\* Two processes on one cache directory: one fetches, one only reads.
InitConc == InitWith([p \in Procs |-> IF p = 1 THEN "fetch" ELSE "read"])

----------------------------------------------------------------------------
(* The errors load raises: its own messages, and the causes below them.    *)
(* An error is the sequence <<raised, its __cause__, the cause of that,    *)
(* ...>>.                                                                  *)

E_Config == "ValueError: Cannot specify a tag with local or annex_dir"
E_NoLocalFile == "ValueError: Local simulations file not found"
E_NoFiles == "ValueError: No simulations files found in the cache"
E_NotFound == "ValueError: Simulations not found and downloading was turned off"
E_Download == "RuntimeError: Failed to download; maybe tag does not exist?"
E_DlFailed == "RuntimeError: Failed to download url; original file remains"
E_Unknown == "ValueError: Simulations not found for unknown reasons"
E_Parse == "ValueError: Failed to parse 'simulations.json'"
E_OpenEntry == "ValueError: Failed to open 'simulations.json'"
E_OpenZip == "ValueError: Failed to open as a ZIP file"

Ok(cat) == [status |-> "ok", cat |-> cat, err |-> <<>>]
Raise(e) == [status |-> "err", cat |-> NoCat, err |-> e]

\* A catalog object that is not the one held in the slot.
NewId(p) == IF slot[p].id = 1 THEN 2 ELSE 1

Present(n) == fs[n].kind # "absent"

----------------------------------------------------------------------------
(* Entering load, reload and Simulations.local                             *)

\* Line 325: hasattr(cls, "_simulations") and not ignore_cached
CacheHit_localBypass(cached, a) ==
    cached # NoCat /\ ~a.ic /\ ~a.local /\ a.annex = "None"

CacheHit(cached, a) == cached # NoCat /\ ~a.ic

\* A variant that rejects a tag only together with local=True.
Conflict_localOnly(a) == a.tag # "" /\ a.local

\* Line 334: tag and (local or annex_dir is not None)
Conflict(a) == a.tag # "" /\ (a.local \/ a.annex # "None")

\* kind: which function is called; a: its arguments; ofile: output_file;
\* scan: what local_simulations finds in the annex directory, if it is run.
Enter(p, kind, a, ofile, scan) ==
    LET s0 == IF kind = "reload" THEN NoCat ELSE slot[p]
        isLoad == kind \in {"load", "reload"}
        hit == isLoad /\ CacheHit(s0, a)
        conflict == isLoad /\ ~hit /\ Conflict(a)
        toLocal == ~hit /\ ~conflict /\ (kind = "local" \/ a.local \/ a.annex # "None")
        scanned == toLocal /\ a.annex # "None"
        nofile == toLocal /\ ~scanned /\ ~localfile.present
        lrec == IF scanned THEN scan ELSE localfile.items
        nestedHit == toLocal /\ ~nofile
                     /\ CacheHit(s0, [a EXCEPT !.tag = "", !.local = FALSE, !.annex = "None"])
        merged == Merge(s0, lrec)
    IN  /\ call' = [call EXCEPT ![p] = [a EXCEPT !.kind = kind]]
        /\ localfile' = IF scanned /\ ofile = "None"
                        THEN [present |-> TRUE, items |-> scan]
                        ELSE localfile
        /\ eff' = [eff EXCEPT ![p] =
                      (IF hit \/ nestedHit THEN {"hit"} ELSE {})
                      \cup (IF nestedHit THEN {"merge"} ELSE {})
                      \cup (IF scanned THEN {"scan"} ELSE {})]
        /\ seen' = [seen EXCEPT ![p] = {}]
        /\ slot' = [slot EXCEPT ![p] = IF nestedHit THEN merged ELSE s0]
        /\ IF hit \/ conflict \/ nofile \/ nestedHit
           THEN /\ pc' = [pc EXCEPT ![p] = "done"]
                /\ ret' = [ret EXCEPT ![p] =
                              IF hit THEN Ok(s0)
                              ELSE IF conflict THEN Raise(<<E_Config>>)
                              ELSE IF nofile THEN Raise(<<E_NoLocalFile>>)
                              ELSE Ok(merged)]
                /\ loc' = [loc EXCEPT ![p] = NoLoc]
           ELSE /\ pc' = [pc EXCEPT ![p] = "resolve"]
                /\ ret' = [ret EXCEPT ![p] = NoRet]
                /\ loc' = [loc EXCEPT ![p] =
                              [NoLoc EXCEPT
                                 !.download = IF a.download = "None" THEN "True"
                                              ELSE a.download,
                                 !.tag = a.tag,
                                 !.merging = toLocal,
                                 !.lrec = IF toLocal THEN lrec ELSE <<>>]]
        /\ UNCHANGED <<fs, work, others>>

Idle(p) == pc[p] = "idle" /\ work[p] # "off"

\* output_file and the result of the scan matter only when the annex is scanned.
OutputFiles(a) == IF a.annex = "None" THEN {"None"} ELSE {"None", "other"}
Scans(a) == IF a.annex = "None" THEN {<<>>} ELSE LocalScans

Load(p) ==
    /\ Idle(p)
    /\ \E a \in LoadArgs(work[p]) : \E ofile \in OutputFiles(a), scan \in Scans(a) :
           Enter(p, "load", a, ofile, scan)

Reload(p) ==
    /\ Idle(p)
    /\ \E a \in LoadArgs(work[p]) : \E ofile \in OutputFiles(a), scan \in Scans(a) :
           Enter(p, "reload", a, ofile, scan)

Local(p) ==
    /\ Idle(p)
    /\ \E a \in LocalArgs(work[p]) : \E ofile \in OutputFiles(a), scan \in Scans(a) :
           Enter(p, "local", a, ofile, scan)

----------------------------------------------------------------------------
(* Resolving the tag                                                       *)

\* The answers to requests.get(releases_url): a failure, or a listing.
ReleaseResponses ==
    {[ok |-> FALSE, listing |-> <<>>]} \cup {[ok |-> TRUE, listing |-> l] : l \in Listings}

Globbed == { n \in AllNames : Present(n) /\ GlobBz2(n) }

MaxOf_min(S) == CHOOSE x \in S : \A y \in S : x <= y

\* Line 373: max(tags)
MaxOf(S) == CHOOSE x \in S : \A y \in S : y <= x

\* Lines 357-383: the tag, published_at and the error raised, if any.
ResolveTag(p, resp) ==
    LET l == loc[p]
        online == l.tag = "" /\ l.download # "False"
        offline == l.tag = "" /\ l.download = "False"
        latest == GetLatestRelease(resp.listing)
        badname == \E n \in Globbed : StemVersion(n) = 0
        first == IF online /\ ~resp.ok THEN <<"requests.RequestException">>
                 ELSE IF online /\ resp.listing = <<>> THEN <<"ValueError: max() arg is an empty sequence">>
                 ELSE IF offline /\ badname THEN <<"InvalidVersion">>
                 ELSE IF offline /\ Globbed = {} THEN <<E_NoFiles>>
                 ELSE <<>>
        tag0 == IF online THEN latest.tag_name
                ELSE IF offline THEN VStr[MaxOf({StemVersion(n) : n \in Globbed})]
                ELSE l.tag
    IN  IF first # <<>> THEN [err |-> first, tag |-> "", pub |-> 0]
        ELSE IF Version(tag0) = 0 THEN [err |-> <<"InvalidVersion">>, tag |-> "", pub |-> 0]
        ELSE [err |-> <<>>, tag |-> NormalizeTag(tag0),
              pub |-> IF online THEN latest.published_at ELSE 0]

Resolve(p) ==
    /\ pc[p] = "resolve"
    /\ \E resp \in ReleaseResponses :
         LET l == loc[p]
             online == l.tag = "" /\ l.download # "False"
             offline == l.tag = "" /\ l.download = "False"
             r == ResolveTag(p, resp)
         IN  /\ eff' = [eff EXCEPT ![p] =
                           @ \cup (IF online THEN {"net"} ELSE {})
                             \cup (IF online /\ ~resp.ok THEN {"relfail"} ELSE {})
                             \cup (IF offline THEN {"glob"} ELSE {})]
             /\ seen' = [seen EXCEPT ![p] = IF offline THEN @ \cup Globbed ELSE @]
             /\ IF r.err # <<>>
                THEN /\ pc' = [pc EXCEPT ![p] = "done"]
                     /\ ret' = [ret EXCEPT ![p] = Raise(r.err)]
                     /\ UNCHANGED loc
                ELSE /\ pc' = [pc EXCEPT ![p] = "check"]
                     /\ loc' = [loc EXCEPT ![p].tag = r.tag, ![p].pub = r.pub]
                     /\ UNCHANGED ret
    /\ UNCHANGED <<fs, localfile, work, slot, call, others>>

\* A variant in which download=True fetches the file although it is cached.
Check_refetch(p) ==
    /\ pc[p] = "check"
    /\ LET path == CachePath(loc[p].tag)
       IN  IF Present(path) /\ call[p].download # "True"
           THEN /\ pc' = [pc EXCEPT ![p] = "open"]
                /\ eff' = [eff EXCEPT ![p] = @ \cup {"found"}]
                /\ UNCHANGED ret
           ELSE IF loc[p].download = "False"
           THEN /\ pc' = [pc EXCEPT ![p] = "done"]
                /\ ret' = [ret EXCEPT ![p] = Raise(<<E_NotFound>>)]
                /\ UNCHANGED eff
           ELSE /\ pc' = [pc EXCEPT ![p] = "dl_get"]
                /\ eff' = [eff EXCEPT ![p] =
                              @ \cup {"fetch"} \cup (IF Present(path) THEN {"found"} ELSE {})]
                /\ UNCHANGED ret
    /\ UNCHANGED <<fs, localfile, work, slot, call, loc, seen, others>>

\* Lines 385-389: cache_path.exists()
Check(p) ==
    /\ pc[p] = "check"
    /\ LET path == CachePath(loc[p].tag)
       IN  IF Present(path)
           THEN /\ pc' = [pc EXCEPT ![p] = "open"]
                /\ eff' = [eff EXCEPT ![p] = @ \cup {"found"}]
                /\ UNCHANGED ret
           ELSE IF loc[p].download = "False"
           THEN /\ pc' = [pc EXCEPT ![p] = "done"]
                /\ ret' = [ret EXCEPT ![p] = Raise(<<E_NotFound>>)]
                /\ UNCHANGED eff
           ELSE /\ pc' = [pc EXCEPT ![p] = "dl_get"]
                /\ eff' = [eff EXCEPT ![p] = @ \cup {"fetch"}]
                /\ UNCHANGED ret
    /\ UNCHANGED <<fs, localfile, work, slot, call, loc, seen, others>>

----------------------------------------------------------------------------
(* download_file(url, temp_json): the transport                            *)

\* A failure below the outermost call of download_file is swallowed by the
\* bare except of the call above it (lines 113-129), which then goes on to
\* its own output_path.replace; a failure of the outermost call reaches load,
\* which wraps it (lines 400-404) and runs its finally block.
Fail(p, cause) ==
    IF loc[p].depth = 0
    THEN /\ pc' = [pc EXCEPT ![p] = "cleanup"]
         /\ loc' = [loc EXCEPT ![p].err = <<E_Download>> \o cause]
    ELSE /\ pc' = [pc EXCEPT ![p] = "dl_rename"]
         /\ loc' = [loc EXCEPT ![p].depth = @ - 1]

\* Lines 46-73: the directory is checked and the request is sent.
DlGet(p) ==
    /\ pc[p] = "dl_get"
    /\ eff' = [eff EXCEPT ![p] = @ \cup {"net"}]
    /\ \E cause \in {"ok", "ValueError: not writable", "requests.HTTPError"} :
          IF cause = "ok"
          THEN /\ pc' = [pc EXCEPT ![p] = "dl_open"]
               /\ UNCHANGED loc
          ELSE Fail(p, <<cause>>)
    /\ UNCHANGED <<fs, localfile, work, slot, call, ret, seen, others>>

\* What the server sends: a one-line URL only while redirects are left.
Bodies(depth) ==
    {CatalogBody, JunkBody} \cup (IF depth < MaxRedirect THEN {UrlBody} ELSE {})

\* Line 99: output_path.open("wb") creates or truncates the .part file.
DlOpen(p) ==
    /\ pc[p] = "dl_open"
    /\ \E body \in Bodies(loc[p].depth) :
          fs' = [fs EXCEPT ![PartPath(TempJson(loc[p].tag))] = File("raw", FALSE, body)]
    /\ pc' = [pc EXCEPT ![p] = "dl_copy"]
    /\ UNCHANGED <<localfile, work, slot, call, loc, ret, eff, seen, others>>

\* Lines 100-106 and 130-138: the body is copied; a failure is wrapped and
\* the .part file is removed.
DlCopy(p) ==
    /\ pc[p] = "dl_copy"
    /\ LET part == PartPath(TempJson(loc[p].tag))
       IN  \E ok \in BOOLEAN :
              IF ok
              THEN /\ fs' = [fs EXCEPT ![part].complete = TRUE]
                   /\ pc' = [pc EXCEPT ![p] = "dl_check"]
                   /\ UNCHANGED loc
              ELSE /\ fs' = [fs EXCEPT ![part] = Absent]
                   /\ Fail(p, <<E_DlFailed, "IOError">>)
    /\ UNCHANGED <<localfile, work, slot, call, ret, eff, seen, others>>

\* Lines 113-127: a file that is one line holding a URL is fetched in turn.
DlCheck(p) ==
    /\ pc[p] = "dl_check"
    /\ IF fs[PartPath(TempJson(loc[p].tag))].body.pk = "url"
       THEN /\ pc' = [pc EXCEPT ![p] = "dl_get"]
            /\ loc' = [loc EXCEPT ![p].depth = @ + 1]
       ELSE /\ pc' = [pc EXCEPT ![p] = "dl_rename"]
            /\ UNCHANGED loc
    /\ UNCHANGED <<fs, localfile, work, slot, call, ret, eff, seen, others>>

\* Lines 132-138: output_path.replace(local_filename), then the finally block
\* unlinks output_path. A success returns through every call of download_file.
DlRename(p) ==
    /\ pc[p] = "dl_rename"
    /\ LET part == PartPath(TempJson(loc[p].tag))
       IN  \E ok \in BOOLEAN :
              IF ok /\ Present(part)
              THEN /\ fs' = [fs EXCEPT ![TempJson(loc[p].tag)] = fs[part],
                                       ![part] = Absent]
                   /\ pc' = [pc EXCEPT ![p] = "zip_open"]
                   /\ loc' = [loc EXCEPT ![p].depth = 0]
              ELSE /\ fs' = [fs EXCEPT ![part] = Absent]
                   /\ Fail(p, IF Present(part) THEN <<"OSError">>
                              ELSE <<"FileNotFoundError">>)
    /\ UNCHANGED <<localfile, work, slot, call, ret, eff, seen, others>>

----------------------------------------------------------------------------
(* Lines 405-412: the archive is built and renamed into place              *)

\* A variant that writes the archive under its final name.
ZipOpen_inPlace(p) ==
    /\ pc[p] = "zip_open"
    /\ LET tj == TempJson(loc[p].tag)
       IN  IF Present(tj)
           THEN /\ fs' = [fs EXCEPT ![CachePath(loc[p].tag)] = File("zip", FALSE, fs[tj].body)]
                /\ pc' = [pc EXCEPT ![p] = "zip_write"]
           ELSE /\ pc' = [pc EXCEPT ![p] = "cleanup"]
                /\ UNCHANGED fs
    /\ UNCHANGED <<localfile, work, slot, call, loc, ret, eff, seen, others>>

\* Lines 406-407: ZipFile(temp_zip, "w") creates the temporary archive.
ZipOpen(p) ==
    /\ pc[p] = "zip_open"
    /\ LET tj == TempJson(loc[p].tag)
       IN  IF Present(tj)
           THEN /\ fs' = [fs EXCEPT ![TempZip(loc[p].tag)] = File("zip", FALSE, fs[tj].body)]
                /\ pc' = [pc EXCEPT ![p] = "zip_write"]
           ELSE /\ pc' = [pc EXCEPT ![p] = "cleanup"]
                /\ UNCHANGED fs
    /\ UNCHANGED <<localfile, work, slot, call, loc, ret, eff, seen, others>>

\* Line 408 and the end of the with block: the entry is written and the
\* archive closed. An error here is raised as it is.
ZipWrite(p) ==
    /\ pc[p] = "zip_write"
    /\ \E ok \in BOOLEAN :
          IF ok
          THEN /\ fs' = [fs EXCEPT ![TempZip(loc[p].tag)].complete = TRUE]
               /\ pc' = [pc EXCEPT ![p] = "zip_rename"]
               /\ UNCHANGED loc
          ELSE /\ pc' = [pc EXCEPT ![p] = "cleanup"]
               /\ loc' = [loc EXCEPT ![p].err = <<"OSError">>]
               /\ UNCHANGED fs
    /\ UNCHANGED <<localfile, work, slot, call, ret, eff, seen, others>>

\* Line 409: temp_zip.replace(cache_path)
ZipRename(p) ==
    /\ pc[p] = "zip_rename"
    /\ LET tz == TempZip(loc[p].tag)
       IN  \E ok \in BOOLEAN :
              IF ok /\ Present(tz)
              THEN /\ fs' = [fs EXCEPT ![CachePath(loc[p].tag)] = fs[tz], ![tz] = Absent]
                   /\ eff' = [eff EXCEPT ![p] = @ \cup {"stored"}]
                   /\ UNCHANGED loc
              ELSE /\ loc' = [loc EXCEPT ![p].err =
                                 IF Present(tz) THEN <<"OSError">>
                                 ELSE <<"FileNotFoundError">>]
                   /\ UNCHANGED <<fs, eff>>
    /\ pc' = [pc EXCEPT ![p] = "cleanup"]
    /\ UNCHANGED <<localfile, work, slot, call, ret, seen, others>>

\* A variant whose finally block removes the downloaded text only.
Cleanup_jsonOnly(p) ==
    /\ pc[p] = "cleanup"
    /\ fs' = [fs EXCEPT ![TempJson(loc[p].tag)] = Absent]
    /\ IF loc[p].err # <<>>
       THEN /\ pc' = [pc EXCEPT ![p] = "done"]
            /\ ret' = [ret EXCEPT ![p] = Raise(loc[p].err)]
       ELSE /\ pc' = [pc EXCEPT ![p] = "open"]
            /\ UNCHANGED ret
    /\ UNCHANGED <<localfile, work, slot, call, loc, eff, seen, others>>

\* Lines 410-412: the finally block, after which a pending error is raised.
Cleanup(p) ==
    /\ pc[p] = "cleanup"
    /\ fs' = [fs EXCEPT ![TempJson(loc[p].tag)] = Absent,
                        ![TempZip(loc[p].tag)] = Absent]
    /\ IF loc[p].err # <<>>
       THEN /\ pc' = [pc EXCEPT ![p] = "done"]
            /\ ret' = [ret EXCEPT ![p] = Raise(loc[p].err)]
       ELSE /\ pc' = [pc EXCEPT ![p] = "open"]
            /\ UNCHANGED ret
    /\ UNCHANGED <<localfile, work, slot, call, loc, eff, seen, others>>

----------------------------------------------------------------------------
(* Lines 414-438: the cache entry is opened and the catalog built          *)

\* Which of the three steps fails on file f: "" when none does.
FailurePoint(f) ==
    IF f.kind # "zip" \/ ~f.complete THEN "archive"
    ELSE IF f.body.pk = "none" THEN "entry"
    ELSE IF f.body.pk # "catalog" THEN "parse"
    ELSE ""

\* Lines 417-428: each handler encloses the one before it, so that an error
\* raised by an inner handler is caught and wrapped again by the outer ones.
OpenError(f) ==
    LET fp == FailurePoint(f)
    IN  IF fp = "archive" THEN <<E_OpenZip, "zipfile.BadZipFile">>
        ELSE IF fp = "entry" THEN <<E_OpenZip, E_OpenEntry, "KeyError">>
        ELSE IF fp = "parse" THEN <<E_OpenZip, E_OpenEntry, E_Parse, "json.JSONDecodeError">>
        ELSE <<>>

Open(p) ==
    /\ pc[p] = "open"
    /\ LET path == CachePath(loc[p].tag)
           f == fs[path]
           sims == NewCatalog(NewId(p), f.body.items, loc[p].tag, loc[p].pub)
           out == IF loc[p].merging THEN Merge(sims, loc[p].lrec) ELSE sims
       IN  IF ~Present(path)
           THEN /\ ret' = [ret EXCEPT ![p] = Raise(<<E_Unknown>>)]
                /\ UNCHANGED <<slot, seen, eff>>
           ELSE /\ seen' = [seen EXCEPT ![p] = @ \cup {path}]
                /\ IF OpenError(f) # <<>>
                   THEN /\ ret' = [ret EXCEPT ![p] = Raise(OpenError(f))]
                        /\ eff' = [eff EXCEPT ![p] = @ \cup {FailurePoint(f)}]
                        /\ UNCHANGED slot
                   ELSE /\ ret' = [ret EXCEPT ![p] = Ok(out)]
                        /\ slot' = [slot EXCEPT ![p] = IF call[p].ic THEN @ ELSE out]
                        /\ eff' = [eff EXCEPT ![p] =
                                      @ \cup (IF loc[p].merging THEN {"merge"} ELSE {})]
    /\ pc' = [pc EXCEPT ![p] = "done"]
    /\ UNCHANGED <<fs, localfile, work, call, loc, others>>

\* The call has returned or raised: the caller takes the result.
Return(p) ==
    /\ pc[p] = "done"
    /\ pc' = [pc EXCEPT ![p] = "idle"]
    /\ call' = [call EXCEPT ![p] = NoCall]
    /\ loc' = [loc EXCEPT ![p] = NoLoc]
    /\ ret' = [ret EXCEPT ![p] = NoRet]
    /\ eff' = [eff EXCEPT ![p] = {}]
    /\ seen' = [seen EXCEPT ![p] = {}]
    /\ UNCHANGED <<fs, localfile, work, slot, others>>

----------------------------------------------------------------------------

Next ==
    \E p \in Procs :
        \/ Load(p)
        \/ Reload(p)
        \/ Local(p)
        \/ Resolve(p)
        \/ Check(p)
        \/ DlGet(p)
        \/ DlOpen(p)
        \/ DlCopy(p)
        \/ DlCheck(p)
        \/ DlRename(p)
        \/ ZipOpen(p)
        \/ ZipWrite(p)
        \/ ZipRename(p)
        \/ Cleanup(p)
        \/ Open(p)
        \/ Return(p)

Spec == Init /\ [][Next]_vars

SpecConc == InitConc /\ [][Next]_vars

----------------------------------------------------------------------------
(* Simulations.dataframe on the catalog of the class attribute             *)

\* Line 497: hasattr(self, "_dataframe")
HasDataframe(cat) == cat.cached

\* Line 500: pd.DataFrame.from_dict(self, orient="index") has a row for each
\* key of the catalog.
RowsOf(cat) == { cat.items[i].k : i \in DOMAIN cat.items }

\* Lines 497-500 and 669: the caller reads .dataframe of the catalog it got
\* from load, the object of the class attribute; the table is built and
\* kept on the object at the first access and handed out again afterwards.
CachedDataframe(p) ==
    /\ Idle(p)
    /\ slot[p] # NoCat
    /\ slot' = [slot EXCEPT ![p] =
                   IF HasDataframe(slot[p]) THEN slot[p]
                   ELSE [slot[p] EXCEPT !.cached = TRUE, !.rows = RowsOf(slot[p])]]
    /\ eff' = [eff EXCEPT ![p] = {"table"}]
    /\ UNCHANGED <<fs, localfile, work, pc, call, loc, ret, seen, others>>

NextCached == Next \/ \E p \in Procs : CachedDataframe(p)

\* One process that loads, reloads, merges and reads tables.
InitCached == InitWith([p \in Procs |-> IF p = 1 THEN "fetch" ELSE "off"])

SpecCached == InitCached /\ [][NextCached]_vars

----------------------------------------------------------------------------
(* file_upload_allowed (simulations/local.py)                              *)
(*                                                                         *)
(* A file is its directory, the pieces of its stem and its last suffix:    *)
(* Lev1/Strain_N2.h5 is [dir |-> 1, stem |-> <<"Strain_", "N2">>,          *)
(* sfx |-> "h5">>. A name starts with "Strain_" when that is the first     *)
(* piece of its stem.                                                      *)

LevDirs == {1, 2}
Stems ==
    { <<"metadata">>, <<"metadata", "_old">>, <<"Horizons">>, <<"Strain_", "N2">>,
      <<"ExtraWaveforms">>, <<"ExtraWaveforms", "_L2">>, <<"rhOverM">> }
Suffixes == {"json", "h5", "txt"}
Files == [dir : LevDirs, stem : Stems, sfx : Suffixes]

\* Path.with_suffix
FileWithSuffix(file, sfx) == [file EXCEPT !.sfx = sfx]

\* A variant that does not look for the file of the other suffix.
file_upload_allowed_unpaired(file, listing) ==
    \/ (file.stem = <<"metadata">> /\ file.sfx = "json")
    \/ (file.stem = <<"Horizons">> /\ file.sfx = "h5")
    \/ /\ file.stem[1] \in {"Strain_", "ExtraWaveforms"}
       /\ file.sfx \in {"json", "h5"}

\* Lines 18-28
file_upload_allowed(file, listing) ==
    IF \/ (file.stem = <<"metadata">> /\ file.sfx = "json")
       \/ (file.stem = <<"Horizons">> /\ file.sfx = "h5")
    THEN TRUE
    ELSE IF file.stem[1] = "Strain_" \/ file.stem[1] = "ExtraWaveforms"
    THEN IF file.sfx = "json" THEN FileWithSuffix(file, "h5") \in listing
         ELSE IF file.sfx = "h5" THEN FileWithSuffix(file, "json") \in listing
         ELSE FALSE
    ELSE FALSE

\* The listings tried with a file: any of the file itself, the files of its
\* stem with the suffixes .json and .h5 in its own and in the other
\* directory, and Horizons.h5.
FileListings(file) ==
    SUBSET ( {file}
             \cup { [dir |-> d, stem |-> file.stem, sfx |-> x] :
                      d \in LevDirs, x \in {"json", "h5"} }
             \cup { [dir |-> file.dir, stem |-> <<"Horizons">>, sfx |-> "h5"] } )

CallFileUploadAllowed ==
    /\ upload.result = "none"
    /\ upload' = [upload EXCEPT !.result =
                     IF file_upload_allowed(upload.file, upload.listing)
                     THEN "True" ELSE "False"]
    /\ UNCHANGED <<loader, walk, table, metric, release>>

NextUpload == CallFileUploadAllowed

InitUpload ==
    /\ InitLoader([p \in Procs |-> "off"])
    /\ walk = NoScan
    /\ \E f \in { g \in Files : g.dir = 1 } : \E l \in FileListings(f) :
          upload = [file |-> f, listing |-> l, result |-> "none"]
    /\ table = NoTable
    /\ metric = NoMetric
    /\ release = NoRelease

SpecUpload == InitUpload /\ [][NextUpload]_vars

----------------------------------------------------------------------------
(* local_simulations (simulations/local.py): the walk over an annex        *)
(* directory.                                                              *)
(*                                                                         *)
(* The name of a subdirectory that starts with "Lev" is the sequence of    *)
(* the characters after that prefix, each a number that orders it as       *)
(* Python orders characters: a digit is its value 0..9, a letter is a      *)
(* number above 9. Lev10 is <<1, 0>>, Lev9 is <<9>>.                       *)

\* The directories of the annex: 0 is annex_dir itself, 1 and 3 lie in it,
\* 2 lies in 1. os.walk lists the subdirectories in this order.
Dirs == {1, 2, 3}
Children(d) == IF d = 0 THEN <<1, 3>> ELSE IF d = 1 THEN <<2>> ELSE <<>>
Parent(d) == IF d = 2 THEN 1 ELSE 0

\* What a directory may look like: its name starts with a dot or not, it
\* holds common-metadata.txt or not, that file has an alternative-names line
\* with an SXS identifier or not, and the subdirectories whose names start
\* with "Lev".
DirKinds ==
    { [hidden |-> FALSE, marker |-> FALSE, named |-> FALSE, levs |-> {}],
      [hidden |-> FALSE, marker |-> FALSE, named |-> FALSE, levs |-> {<<1>>}],
      [hidden |-> FALSE, marker |-> TRUE, named |-> FALSE, levs |-> {}],
      [hidden |-> TRUE, marker |-> TRUE, named |-> FALSE, levs |-> {<<1>>}],
      [hidden |-> FALSE, marker |-> TRUE, named |-> FALSE, levs |-> {<<9>>, <<1, 0>>}],
      [hidden |-> FALSE, marker |-> TRUE, named |-> TRUE,
       levs |-> {<<1>>, <<2>>, <<3>>}],
      [hidden |-> FALSE, marker |-> TRUE, named |-> FALSE, levs |-> {<<14, 21>>}] }

\* annex_dir itself is an ordinary directory.
TopDir == [hidden |-> FALSE, marker |-> FALSE, named |-> FALSE, levs |-> {}]

IsDigit(c) == c \in 0..9
AllDigits(name) == name # <<>> /\ \A i \in DOMAIN name : IsDigit(name[i])

\* Python's order on strings.
RECURSIVE LexLess(_, _)
LexLess(a, b) ==
    IF a = <<>> THEN b # <<>>
    ELSE IF b = <<>> THEN FALSE
    ELSE IF a[1] # b[1] THEN a[1] < b[1]
    ELSE LexLess(Tail(a), Tail(b))

\* sorted(d for d in dirnames if d.startswith("Lev"))
RECURSIVE Sorted(_)
Sorted(S) ==
    IF S = {} THEN <<>>
    ELSE LET m == CHOOSE x \in S : \A y \in S : y = x \/ LexLess(x, y)
         IN  <<m>> \o Sorted(S \ {m})

\* lev_number: the integer written after "Lev"; -1 when there is none.
RECURSIVE LevNumber(_)
LevNumber(name) ==
    IF ~AllDigits(name) THEN -1
    ELSE IF Len(name) = 1 THEN name[1]
    ELSE 10 * LevNumber(SubSeq(name, 1, Len(name) - 1)) + name[Len(name)]

\* extract_id_from_common_metadata: the SXS identifier of the
\* alternative-names line, else the path relative to annex_dir.
ExtractId(d, kind) == IF kind.named THEN <<"SXS", d>> ELSE <<"path", d>>

\* Line 132: any(d.startswith("Lev") for d in dirnames)
HasLev(kind) == kind.levs # {}

\* How the processing of one simulation ends: without an exception, with an
\* exception before the record is stored (line 151) or after it, or with a
\* KeyboardInterrupt.
Outcomes == {"ok", "early", "late", "interrupt"}

\* A variant whose handler catches every exception.
Propagates_never(outcome) == FALSE

\* Lines 176-179: KeyboardInterrupt is raised again, every other exception is
\* printed.
Propagates(outcome) == outcome = "interrupt"

\* What the Lev subdirectories of a simulation may hold: nothing, files that
\* are uploaded, or only files that are not.
LevListings ==
    { {},
      { [dir |-> 1, stem |-> <<"metadata">>, sfx |-> "json"],
        [dir |-> 1, stem |-> <<"Strain_", "N2">>, sfx |-> "h5"],
        [dir |-> 1, stem |-> <<"Strain_", "N2">>, sfx |-> "json"] },
      { [dir |-> 1, stem |-> <<"metadata">>, sfx |-> "txt"],
        [dir |-> 1, stem |-> <<"Strain_", "N2">>, sfx |-> "h5"] } }

\* files_to_upload (lines 31-46): the files of a listing that
\* file_upload_allowed lets pass.
files_to_upload(listing) == { file \in listing : file_upload_allowed(file, listing) }

\* Lines 139-175: the record of directory d. complete is FALSE when mtime and
\* files were not reached; otherwise files holds the files to upload.
Record(d, kind, files, complete) ==
    LET levs == Sorted(kind.levs)
    IN  [key |-> ExtractId(d, kind),
         directory |-> d,
         highest_lev |-> levs[Len(levs)],
         lev_numbers |-> [i \in DOMAIN levs |-> LevNumber(levs[i])],
         files |-> files,
         complete |-> complete]

\* A variant that leaves the subdirectories to the walk.
Pruned_not(d) == Children(d)

\* Lines 128 and 181, dirnames[:] = []: what the walk still visits below d.
Pruned(d) == <<>>

KindOf(d) == IF d = 0 THEN TopDir ELSE walk.tree[d]

\* Lines 127-129: a hidden directory is left out with all below it.
SkipHidden ==
    /\ walk.status = "walking" /\ walk.todo # <<>>
    /\ KindOf(Head(walk.todo)).hidden
    /\ walk' = [walk EXCEPT !.todo = Pruned(Head(walk.todo)) \o Tail(@)]
    /\ UNCHANGED <<loader, upload, table, metric, release>>

\* Lines 131-133: a directory without common-metadata.txt, or with it and
\* without a Lev subdirectory, is passed by, and the walk goes on below it.
Descend ==
    /\ walk.status = "walking" /\ walk.todo # <<>>
    /\ LET d == Head(walk.todo)
           kind == KindOf(d)
       IN  /\ ~kind.hidden
           /\ ~(kind.marker /\ HasLev(kind))
           /\ walk' = [walk EXCEPT !.todo = Children(d) \o Tail(@)]
    /\ UNCHANGED <<loader, upload, table, metric, release>>

\* Lines 138-181: one simulation is processed, and nothing below it is
\* walked.
Process ==
    /\ walk.status = "walking" /\ walk.todo # <<>>
    /\ LET d == Head(walk.todo)
           kind == KindOf(d)
       IN  /\ ~kind.hidden
           /\ kind.marker /\ HasLev(kind)
           /\ \E outcome \in Outcomes :
              \E listing \in IF outcome = "ok" THEN LevListings ELSE {{}} :
                 walk' = [walk EXCEPT
                    !.tried = @ \cup {d},
                    !.raised = IF outcome = "ok" THEN ""
                               ELSE IF outcome = "interrupt" THEN "KeyboardInterrupt"
                               ELSE "Exception",
                    !.simulations =
                        IF outcome = "ok"
                        THEN Append(@, Record(d, kind, files_to_upload(listing), TRUE))
                        ELSE IF outcome = "late"
                        THEN Append(@, Record(d, kind, {}, FALSE))
                        ELSE @,
                    !.log = IF outcome \in {"early", "late"}
                               \/ (outcome = "interrupt" /\ ~Propagates(outcome))
                            THEN @ \cup {d} ELSE @,
                    !.status = IF outcome # "ok" /\ Propagates(outcome)
                               THEN "interrupted" ELSE @,
                    !.todo = IF outcome # "ok" /\ Propagates(outcome)
                             THEN @ ELSE Pruned(d) \o Tail(@)]
    /\ UNCHANGED <<loader, upload, table, metric, release>>

\* Line 183: return simulations
ScanReturn ==
    /\ walk.status = "walking" /\ walk.todo = <<>>
    /\ walk' = [walk EXCEPT !.status = "returned"]
    /\ UNCHANGED <<loader, upload, table, metric, release>>

NextScan == SkipHidden \/ Descend \/ Process \/ ScanReturn

\* local_simulations is called on an annex directory.
InitScan ==
    /\ InitLoader([p \in Procs |-> "off"])
    /\ walk \in { [NoScan EXCEPT !.tree = t, !.todo = <<0>>, !.status = "walking"] :
                    t \in [Dirs -> DirKinds] }
    /\ upload = NoUpload
    /\ table = NoTable
    /\ metric = NoMetric
    /\ release = NoRelease

SpecScan == InitScan /\ [][NextScan]_vars

----------------------------------------------------------------------------
(* Simulations.dataframe and the views of SimulationsDataFrame             *)
(* (simulations/simulations.py), on these fields of a record:              *)
(* reference_chi1_perp, reference_chi2_perp, reference_eccentricity,       *)
(* reference_dimensionless_spin1 and keywords.                             *)
(*                                                                         *)
(* A value is [t, v]. t says what it is: "absent" (the record has no such  *)
(* key), "num" (the number v, in units of 1e-4), "bound" (the string       *)
(* "<v"), "str" (another string), "vec" (the list [0, 0, v]), "short" (a   *)
(* list of two numbers), "list" (a list of keywords, v = 1 when            *)
(* "deprecated" is among them), "nan" (not-a-number), "nan3" (a list of    *)
(* three not-a-numbers).                                                   *)

\* 1e-3, in units of 1e-4
Cutoff == 10

Val(t, v) == [t |-> t, v |-> v]
NaN == Val("nan", 0)
NaN3 == Val("nan3", 0)
AbsentVal == Val("absent", 0)

\* The records a catalog may hold.
RecordKinds ==
    { [chi1 |-> Val("num", 0), chi2 |-> Val("num", 0), ecc |-> Val("num", 5),
       spin1 |-> Val("vec", 3), keywords |-> Val("list", 0)],
      [chi1 |-> Val("num", 4), chi2 |-> Val("num", 6), ecc |-> Val("num", 10),
       spin1 |-> Val("vec", 7), keywords |-> Val("list", 1)],
      [chi1 |-> Val("num", 20), chi2 |-> AbsentVal, ecc |-> Val("bound", 1),
       spin1 |-> Val("short", 0), keywords |-> Val("list", 0)],
      [chi1 |-> AbsentVal, chi2 |-> AbsentVal, ecc |-> AbsentVal,
       spin1 |-> AbsentVal, keywords |-> Val("list", 0)],
      [chi1 |-> Val("num", 3), chi2 |-> Val("num", 3), ecc |-> Val("str", 0),
       spin1 |-> Val("vec", 1), keywords |-> AbsentVal],
      [chi1 |-> Val("num", 0), chi2 |-> Val("num", 0), ecc |-> Val("num", 200),
       spin1 |-> AbsentVal, keywords |-> AbsentVal] }

\* The catalogs: up to two records, in the order of their keys.
Catalogs ==
    {<< >>} \cup { <<a>> : a \in RecordKinds } \cup { <<a, b>> : a, b \in RecordKinds }

\* pd.DataFrame.from_dict(self, orient="index"): a column for every key that
\* some record has, not-a-number where a record lacks it.
HasColumn(cat, col) == \E i \in DOMAIN cat : cat[i][col].t # "absent"
Cell(cat, i, col) == IF cat[i][col].t = "absent" THEN NaN ELSE cat[i][col]

\* floater: the value as a float, not-a-number when it is none.
floater(x) == IF x.t = "num" THEN x ELSE NaN

\* floaterbound: the value as a float, the number after "<" for a bound.
floaterbound(x) == IF x.t \in {"num", "bound"} THEN Val("num", x.v) ELSE NaN

\* Lines 514-519: a list of three stays, anything else is a triple of
\* not-a-number.
valid_vector(x) == IF x.t = "vec" THEN x ELSE NaN3

\* norm of a row of three components
norm(x) == IF x.t = "vec" THEN Val("num", x.v) ELSE NaN

\* The components of a vector.
Component(x, c) ==
    IF x.t = "vec" THEN Val("num", IF c = "z" THEN x.v ELSE 0) ELSE NaN

\* Lines 535-558 for a mapper of the table default_values: the column, or
\* the default for every row, passed through the mapper.
get(cat, i, col) == IF HasColumn(cat, col) THEN Cell(cat, i, col) ELSE NaN

\* Lines 535-558 for the default []: the column as it is, or [] for every
\* row.
getList(cat, i, col) == IF HasColumn(cat, col) THEN Cell(cat, i, col) ELSE Val("list", 0)

\* The columns three_vector_dataframe makes of reference_dimensionless_spin1
\* (lines 521-533).
VectorColumns ==
    <<"reference_dimensionless_spin1_x", "reference_dimensionless_spin1_y",
      "reference_dimensionless_spin1_z", "reference_dimensionless_spin1_mag",
      "reference_dimensionless_spin1">>

\* Lines 560-635: the columns in the order of the concatenation, after
\* "deprecated" has been put in front.
Columns ==
    <<"deprecated">>
    \o <<"reference_chi1_perp", "reference_chi2_perp", "reference_eccentricity",
         "reference_eccentricity_bound">>
    \o VectorColumns
    \o <<"keywords">>

\* What dataframe raises on a catalog, "" when nothing. Lines 523-525:
\* df.get(col, <an ndarray>) gives the ndarray when no record has the key col,
\* and an ndarray has no method apply. Line 634: "deprecated" in ks is applied
\* to every cell of the column keywords, also to a not-a-number.
DataframeError(cat) ==
    IF ~HasColumn(cat, "spin1") THEN "AttributeError"
    ELSE IF HasColumn(cat, "keywords")
            /\ \E i \in DOMAIN cat : cat[i].keywords.t = "absent"
    THEN "TypeError"
    ELSE ""

\* The row of record i.
Row(cat, i) ==
    LET spin == valid_vector(Cell(cat, i, "spin1"))
        kw == getList(cat, i, "keywords")
    IN  [key |-> i,
         deprecated |-> kw.v = 1,
         reference_chi1_perp |-> floater(get(cat, i, "chi1")),
         reference_chi2_perp |-> floater(get(cat, i, "chi2")),
         reference_eccentricity |-> floater(get(cat, i, "ecc")),
         reference_eccentricity_bound |-> floaterbound(get(cat, i, "ecc")),
         spin1_x |-> Component(spin, "x"),
         spin1_y |-> Component(spin, "y"),
         spin1_z |-> Component(spin, "z"),
         spin1_mag |-> norm(spin),
         spin1 |-> spin,
         keywords |-> kw]

NoView == [taken |-> FALSE, keys |-> {}]
ViewNames == {"noneccentric", "eccentric", "nonprecessing", "precessing"}

\* Lines 497-670: the table is built, or an exception is raised.
Dataframe ==
    /\ table.status = "none"
    /\ LET e == DataframeError(table.cat)
       IN  table' =
             IF e # "" THEN [table EXCEPT !.status = e]
             ELSE [table EXCEPT
                      !.status = "ok",
                      !.columns = Columns,
                      !.df = [i \in DOMAIN table.cat |-> Row(table.cat, i)]]
    /\ UNCHANGED <<loader, walk, upload, metric, release>>

\* A variant that takes in the cutoff itself.
Less_orEqual(x, c) == x.t = "num" /\ x.v <= c

\* Comparisons of floats: every comparison with not-a-number is false.
Less(x, c) == x.t = "num" /\ x.v < c
GreaterEq(x, c) == x.t = "num" /\ x.v >= c
Plus(x, y) == IF x.t = "num" /\ y.t = "num" THEN Val("num", x.v + y.v) ELSE NaN

\* reference_chi1_perp + reference_chi2_perp of row i
PerpSum(i) == Plus(table.df[i].reference_chi1_perp, table.df[i].reference_chi2_perp)

\* self[mask]: the view holds the rows the mask selects.
Selected(name, keys) == [table EXCEPT !.views[name] = [taken |-> TRUE, keys |-> keys]]
Viewable(name) == table.status = "ok" /\ ~table.views[name].taken

\* Lines 29-32
noneccentric ==
    /\ Viewable("noneccentric")
    /\ table' = Selected("noneccentric",
                    { i \in DOMAIN table.df :
                        Less(table.df[i].reference_eccentricity_bound, Cutoff) })
    /\ UNCHANGED <<loader, walk, upload, metric, release>>

\* Lines 34-37
eccentric ==
    /\ Viewable("eccentric")
    /\ table' = Selected("eccentric",
                    { i \in DOMAIN table.df :
                        GreaterEq(table.df[i].reference_eccentricity_bound, Cutoff) })
    /\ UNCHANGED <<loader, walk, upload, metric, release>>

\* Lines 39-52
nonprecessing ==
    /\ Viewable("nonprecessing")
    /\ table' = Selected("nonprecessing",
                    { i \in DOMAIN table.df : Less(PerpSum(i), Cutoff) })
    /\ UNCHANGED <<loader, walk, upload, metric, release>>

\* Lines 54-64
precessing ==
    /\ Viewable("precessing")
    /\ table' = Selected("precessing",
                    { i \in DOMAIN table.df : GreaterEq(PerpSum(i), Cutoff) })
    /\ UNCHANGED <<loader, walk, upload, metric, release>>

NextTable == Dataframe \/ noneccentric \/ eccentric \/ nonprecessing \/ precessing

\* A catalog whose table has not been asked for.
InitTable ==
    /\ InitLoader([p \in Procs |-> "off"])
    /\ walk = NoScan
    /\ upload = NoUpload
    /\ metric = NoMetric
    /\ release = NoRelease
    /\ table \in { [cat |-> c, df |-> <<>>, columns |-> <<>>, status |-> "none",
                     views |-> [n \in ViewNames |-> NoView]] : c \in Catalogs }

SpecTable == InitTable /\ [][NextTable]_vars

----------------------------------------------------------------------------
(* MetadataMetric.__call__ (metadata/metric.py)                            *)
(*                                                                         *)
(* A metadata record is a function from the names of the fields it carries *)
(* to their values.  Numbers are written in units of 1e-4 and squared      *)
(* distances in units of 1e-8; the vector Val("vec", v) is (0, 0, v).      *)

\* Lines 73-75: the thresholds 1e-2 and 1e-3 and the number of orbits.
eccentricity_threshold1 == 100
eccentricity_threshold2 == 10
eccentricity_threshold_penalize_shorter == 20

\* The records the metric is called on.
MetricRecords ==
    { [object_types |-> <<"BH", "BH">>, reference_mass_ratio |-> Val("num", 10000),
       reference_eccentricity |-> Val("num", 50),
       reference_mean_anomaly |-> Val("num", 0), number_of_orbits |-> 25,
       reference_dimensionless_spin1 |-> Val("vec", 3000)],
      [object_types |-> <<"BH", "BH">>, reference_mass_ratio |-> Val("num", 20000),
       reference_eccentricity |-> Val("num", 5),
       reference_mean_anomaly |-> Val("num", 0), number_of_orbits |-> 25,
       reference_dimensionless_spin1 |-> Val("vec", 1000)],
      [object_types |-> <<"BH", "BH">>, reference_mass_ratio |-> Val("num", 20000),
       reference_eccentricity |-> Val("num", 5),
       reference_mean_anomaly |-> Val("num", 0), number_of_orbits_from_start |-> 10],
      [object1 |-> "ns", object2 |-> "bh", reference_mass_ratio |-> Val("num", 10000),
       reference_eccentricity |-> Val("num", 50), number_of_orbits |-> 25,
       reference_dimensionless_spin1 |-> Val("vec", 3000)],
      [object_types |-> <<"BH", "NS">>, reference_mass1 |-> Val("num", 30000),
       reference_mass2 |-> Val("num", 10000),
       reference_eccentricity_bound |-> Val("bound", 2),
       reference_mean_anomaly |-> Val("num", 0), number_of_orbits |-> 30,
       reference_dimensionless_spin1 |-> Val("vec", 0)],
      [reference_mass_ratio |-> Val("num", 10000)],
      [reference_mass1 |-> Val("num", 20000), reference_mass2 |-> Val("num", 10000)] }

\* The lists of parameters a metric is configured with.
ParameterLists ==
    { <<"reference_mass_ratio">>,
      <<"reference_dimensionless_spin1">>,
      <<"reference_mass_ratio", "reference_dimensionless_spin1">>,
      <<"reference_mass_ratio", "reference_eccentricity">>,
      <<"reference_mass_ratio", "reference_complex_eccentricity">> }

\* Lines 63-82: the configuration; the weight matrix is left at None.
MetricConfigs ==
    [parameters : ParameterLists, allow_different_object_types : BOOLEAN]

\* metadata.get(field, default)
Get(metadata, field, default) ==
    IF field \in DOMAIN metadata THEN metadata[field] ELSE default

\* str.upper on the codes of the objects
Upper(s) == CASE s = "bh" -> "BH" [] s = "ns" -> "NS" [] OTHER -> s

\* The codes in Python's order on strings.
CodeOrder == <<"A", "B", "BH", "C", "D", "NS">>

\* Lines 86-93 and 94-101: object_types, else the two codes in upper case,
\* sorted and joined; a record without object1 or object2 gets the defaults
\* of its position.
ObjectTypes(metadata, default1, default2) ==
    IF "object_types" \in DOMAIN metadata THEN metadata["object_types"]
    ELSE LET a == Upper(Get(metadata, "object1", default1))
             b == Upper(Get(metadata, "object2", default2))
             at == CHOOSE i \in DOMAIN CodeOrder : CodeOrder[i] = a
             bt == CHOOSE i \in DOMAIN CodeOrder : CodeOrder[i] = b
         IN  IF bt < at THEN <<b, a>> ELSE <<a, b>>

\* A variant that compares the types only of records that both say
\* object_types.
TypesDiffer_explicitOnly(metadata1, metadata2) ==
    /\ "object_types" \in DOMAIN metadata1
    /\ "object_types" \in DOMAIN metadata2
    /\ metadata1["object_types"] # metadata2["object_types"]

\* Line 102: type1 != type2
TypesDiffer(metadata1, metadata2) ==
    ObjectTypes(metadata1, "A", "B") # ObjectTypes(metadata2, "C", "D")

\* A variant that divides the second mass by the first.
Quotient_inverted(x, y) ==
    IF x.t = "num" /\ y.t = "num" THEN Val("num", (y.v * 10000) \div x.v) ELSE NaN

\* Lines 115-118: the quotient of two floats; not-a-number when one is.
Quotient(x, y) ==
    IF x.t = "num" /\ y.t = "num" THEN Val("num", (x.v * 10000) \div y.v) ELSE NaN

\* Line 127: e * exp(1j * l), for the mean anomaly 0 of the records above.
Rotated(e, l) == IF e.t = "num" /\ l.t = "num" /\ l.v = 0 THEN e ELSE NaN

\* Lines 112-127: the value of one parameter; values start as not-a-number
\* (lines 107-108) and stay so for a parameter that is neither carried nor
\* derived.
Value(metadata, parameter) ==
    IF parameter \in DOMAIN metadata THEN metadata[parameter]
    ELSE IF parameter = "reference_mass_ratio"
         THEN Quotient(floater(Get(metadata, "reference_mass1", NaN)),
                       floater(Get(metadata, "reference_mass2", NaN)))
    ELSE IF parameter = "reference_complex_eccentricity"
         THEN Rotated(floaterbound(Get(metadata, "reference_eccentricity_bound",
                                       Get(metadata, "reference_eccentricity", NaN))),
                      floater(Get(metadata, "reference_mean_anomaly", NaN)))
    ELSE NaN

Values(metadata, parameters) ==
    [i \in DOMAIN parameters |-> Value(metadata, parameters[i])]

\* abs(x) < c; no comparison with not-a-number is true.
AbsLess(x, c) == x.t = "num" /\ x.v < c /\ 0 - x.v < c

\* Lines 136-140: the place of reference_eccentricity, else of
\* reference_complex_eccentricity, else none.
EccentricityIndex(parameters) ==
    LET at(name) == { i \in DOMAIN parameters : parameters[i] = name }
    IN  IF at("reference_eccentricity") # {}
        THEN CHOOSE i \in at("reference_eccentricity") :
                 \A j \in at("reference_eccentricity") : i <= j
        ELSE IF at("reference_complex_eccentricity") # {}
        THEN CHOOSE i \in at("reference_complex_eccentricity") :
                 \A j \in at("reference_complex_eccentricity") : i <= j
        ELSE 0

\* A variant that does not look at the number of orbits.
Ignored_anyLength(x1, x2, metadata2) ==
    /\ AbsLess(x1, eccentricity_threshold1)
    /\ AbsLess(x2, eccentricity_threshold2)

\* Lines 142-153: whether the eccentricity of metadata1 gives way to that of
\* metadata2.
Ignored(x1, x2, metadata2) ==
    /\ AbsLess(x1, eccentricity_threshold1)
    /\ AbsLess(x2, eccentricity_threshold2)
    /\ Get(metadata2, "number_of_orbits",
           Get(metadata2, "number_of_orbits_from_start", 0))
         > eccentricity_threshold_penalize_shorter

\* Lines 135-154: values1 after the eccentricities were looked at.
Dampened(parameters, values1, values2, metadata2) ==
    LET i == EccentricityIndex(parameters)
    IN  IF i # 0 /\ Ignored(values1[i], values2[i], metadata2)
        THEN [j \in DOMAIN values1 |-> IF j = i THEN values2[j] ELSE values1[j]]
        ELSE values1

\* Lines 158-161: np.concatenate(list(map(np.atleast_1d, values)))
RECURSIVE Concatenate(_)
Concatenate(values) ==
    IF values = <<>> THEN <<>>
    ELSE (IF Head(values).t = "vec"
          THEN <<Val("num", 0), Val("num", 0), Val("num", Head(values).v)>>
          ELSE <<Head(values)>>) \o Concatenate(Tail(values))

\* Lines 158-161: the difference of two arrays, as pairs of entries; an
\* array of one entry is stretched to the length of the other.
Difference(a, b) ==
    IF Len(a) = Len(b) THEN [i \in DOMAIN a |-> <<a[i], b[i]>>]
    ELSE IF Len(a) = 1 THEN [i \in DOMAIN b |-> <<a[1], b[i]>>]
    ELSE [i \in DOMAIN a |-> <<a[i], b[1]>>]

\* Arrays of other lengths cannot be subtracted: numpy raises ValueError.
Subtractable(a, b) == Len(a) = Len(b) \/ Len(a) = 1 \/ Len(b) = 1

\* Lines 166-168 for the weight None: the sum of the squared differences.
RECURSIVE SumOfSquares(_)
SumOfSquares(difference) ==
    IF difference = <<>> THEN 0
    ELSE (Head(difference)[1].v - Head(difference)[2].v)
           * (Head(difference)[1].v - Head(difference)[2].v)
         + SumOfSquares(Tail(difference))

\* Lines 84-168: the squared distance from metadata1 to metadata2: infinity,
\* a number, not-a-number, or an exception.
MetadataMetric(cfg, metadata1, metadata2) ==
    IF ~cfg.allow_different_object_types /\ TypesDiffer(metadata1, metadata2)
    THEN Val("inf", 0)
    ELSE LET values2 == Values(metadata2, cfg.parameters)
             values1 == Dampened(cfg.parameters, Values(metadata1, cfg.parameters),
                                 values2, metadata2)
             a == Concatenate(values1)
             b == Concatenate(values2)
             difference == Difference(a, b)
         IN  IF ~Subtractable(a, b) THEN Val("raise", 0)
             ELSE IF \E i \in DOMAIN difference :
                        difference[i][1].t # "num" \/ difference[i][2].t # "num"
             THEN NaN
             ELSE Val("num", SumOfSquares(difference))

\* metric(metadata1, metadata2)
CallMetric ==
    /\ metric.status = "ready"
    /\ metric' = [metric EXCEPT !.status = "called",
                                !.d12 = MetadataMetric(metric.cfg, metric.m1, metric.m2)]
    /\ UNCHANGED <<loader, walk, upload, table, release>>

\* metric(metadata2, metadata1), by the same metric
CallMetricSwapped ==
    /\ metric.status = "called"
    /\ metric' = [metric EXCEPT !.status = "both",
                                !.d21 = MetadataMetric(metric.cfg, metric.m2, metric.m1)]
    /\ UNCHANGED <<loader, walk, upload, table, release>>

NextMetric == CallMetric \/ CallMetricSwapped

\* A metric and two records it has not been called on.
InitMetric ==
    /\ InitLoader([p \in Procs |-> "off"])
    /\ walk = NoScan
    /\ upload = NoUpload
    /\ table = NoTable
    /\ release = NoRelease
    /\ metric \in { [NoMetric EXCEPT !.cfg = c, !.m1 = a, !.m2 = b, !.status = "ready"] :
                      c \in MetricConfigs, a \in MetricRecords, b \in MetricRecords }

SpecMetric == InitMetric /\ [][NextMetric]_vars

----------------------------------------------------------------------------
(* get_latest_release (simulations/simulations.py, lines 156-164)          *)

\* The longest listing and the latest date of publication.
MaxReleases == 3
MaxPublished == 3

RECURSIVE SeqsUpTo(_, _)
SeqsUpTo(S, n) ==
    IF n = 0 THEN {<<>>}
    ELSE LET shorter == SeqsUpTo(S, n - 1)
         IN  shorter \cup { Append(q, x) : q \in shorter, x \in S }

\* What the releases URL may answer with: lists of releases, in any order
\* of their dates.
ReleaseData ==
    SeqsUpTo([tag_name : {"v1", "v2"}, published_at : 1..MaxPublished], MaxReleases)

\* The call: max() of an empty list raises ValueError.
CallGetLatestRelease ==
    /\ release.status = "ready"
    /\ release' = IF release.listing = <<>>
                  THEN [release EXCEPT !.status = "raised", !.result = "ValueError"]
                  ELSE [release EXCEPT !.status = "returned",
                                       !.result = GetLatestRelease(release.listing)]
    /\ UNCHANGED <<loader, walk, upload, table, metric>>

NextRelease == CallGetLatestRelease

InitRelease ==
    /\ InitLoader([p \in Procs |-> "off"])
    /\ walk = NoScan
    /\ upload = NoUpload
    /\ table = NoTable
    /\ metric = NoMetric
    /\ release \in { [NoRelease EXCEPT !.listing = l, !.status = "ready"] :
                       l \in ReleaseData }

SpecRelease == InitRelease /\ [][NextRelease]_vars

----------------------------------------------------------------------------
(* Properties                                                              *)

CacheNames == { CachePath(VStr[v]) : v \in Versions }
CachedVersions == { v \in Versions : Present(CachePath(VStr[v])) }
IsCacheName(n) == Len(n) = 2 /\ n[2] = "bz2" /\ Version(n[1]) # 0

\* A step of process p.
Step(p) == pc'[p] # pc[p] \/ loc'[p] # loc[p]

\* C1: a file that exists under a final name simulations_<tag>.bz2 is a
\* completely written archive holding a completely downloaded body, in every
\* state, also in the middle of a download and after one that failed.
C1_CacheEntriesComplete ==
    \A n \in CacheNames :
        Present(n) => /\ fs[n].kind = "zip"
                      /\ fs[n].complete
                      /\ fs[n].body \in Bodies(0)

\* An entry is cached and a later download has failed.
C1_Witness ==
    \E p \in Procs :
        /\ pc[p] = "done" /\ "fetch" \in eff[p] /\ ret[p].status = "err"
        /\ CachedVersions # {}

\* C2: a load running beside a load that downloads lists and opens only
\* completely written cache entries, and does not fail on any other file.
C2_ReadersSeeOnlyEntries ==
    \A p \in Procs :
        /\ \A n \in seen[p] : IsCacheName(n) /\ fs[n].complete
        /\ ~(pc[p] = "done" /\ "glob" \in eff[p] /\ ret[p].err = <<"InvalidVersion">>)

\* C3: load with ignore_cached false on a filled slot returns the catalog of
\* the slot at once: no release lookup, no download, no scan, no listing of
\* the cache, and the files and the slot stay as they are, whatever the other
\* arguments.
C3_CachedLoadIsNoOp ==
    [][\A p \in Procs :
          (pc[p] = "idle" /\ pc'[p] # "idle" /\ call'[p].kind = "load"
             /\ slot[p] # NoCat /\ ~call'[p].ic)
          => /\ pc'[p] = "done"
             /\ ret'[p] = Ok(slot[p])
             /\ slot' = slot
             /\ fs' = fs
             /\ localfile' = localfile
             /\ eff'[p] \cap {"net", "glob", "scan", "fetch", "stored"} = {}
             /\ seen'[p] = {}]_vars

\* A load asking for a tag, a download and an annex scan was answered from
\* the slot.
C3_Witness ==
    \E p \in Procs :
        /\ pc[p] = "done" /\ call[p].kind = "load" /\ "hit" \in eff[p]
        /\ call[p].tag = "v1" /\ call[p].annex = "dir" /\ call[p].download = "True"
        /\ ret[p] = Ok(slot[p])

\* C4: when fetch-and-store fails, load raises the download error with the
\* cause below it, and the entries of the cache are as they were.
C4_FetchFailureWrapped ==
    [][\A p \in Procs :
          (pc[p] = "cleanup" /\ pc'[p] = "done" /\ "fetch" \in eff[p]
             /\ ret'[p].status = "err")
          => /\ Head(ret'[p].err) = E_Download
             /\ Len(ret'[p].err) >= 2
             /\ \A n \in CacheNames : fs'[n] = fs[n]]_vars

\* One file for each step at which opening an entry can fail.
BrokenFiles ==
    { File("raw", TRUE, CatalogBody), File("zip", TRUE, NoBody), File("zip", TRUE, JunkBody) }

\* C5: the error raised when opening the entry fails at one of the three
\* steps differs from the error raised for a failure at another step.
C5_DistinctOpenErrors ==
    \A p \in Procs :
        (pc[p] = "done" /\ ret[p].status = "err"
           /\ eff[p] \cap {"archive", "entry", "parse"} # {})
        => \A g \in BrokenFiles :
              FailurePoint(g) \notin eff[p] => Head(OpenError(g)) # Head(ret[p].err)

\* C6: a cache entry changes only in the rename that ends a download whose
\* text and archive were written completely, and a load that found the entry
\* of its tag neither fetches nor changes it.
C6_EntriesOnlyFromCompletedDownload ==
    [][/\ \A n \in CacheNames :
            fs'[n] # fs[n]
            => \E p \in Procs :
                  /\ pc[p] = "zip_rename" /\ pc'[p] = "cleanup"
                  /\ n = CachePath(loc[p].tag)
                  /\ "found" \notin eff[p]
                  /\ fs[TempJson(loc[p].tag)].complete
                  /\ fs[TempZip(loc[p].tag)].complete
                  /\ fs[TempZip(loc[p].tag)].body = fs[TempJson(loc[p].tag)].body
                  /\ fs'[n] = fs[TempZip(loc[p].tag)]
       /\ \A p \in Procs :
            "found" \in eff'[p]
            => /\ pc'[p] \in {"open", "done"}
               /\ "fetch" \notin eff'[p]
               /\ "net" \in eff'[p] => "net" \in eff[p]
               /\ Present(CachePath(loc'[p].tag))
               /\ fs'[CachePath(loc'[p].tag)] = fs[CachePath(loc'[p].tag)]]_vars

\* A load found the entry of its tag, failed to parse it, and left it there.
C6_Witness ==
    \E p \in Procs :
        /\ pc[p] = "done" /\ "found" \in eff[p] /\ "parse" \in eff[p]
        /\ ret[p].status = "err"
        /\ Present(CachePath(loc[p].tag))

\* C7: load() with download=None and no tag, when the release query fails and
\* the cache holds an archive, does not fail with the error of the query: it
\* goes on with the cached archives.
C7_FallsBackToCache ==
    \A p \in Procs :
        (pc[p] = "done" /\ call[p].download = "None" /\ call[p].tag = ""
           /\ "relfail" \in eff[p] /\ CachedVersions # {})
        => /\ "glob" \in eff[p]
           /\ ~(ret[p].status = "err" /\ Head(ret[p].err) = "requests.RequestException")

C9_ReloadRefillsSlot ==
    [][\A p \in Procs :
          call'[p].kind = "reload"
          => /\ pc[p] = "idle" => (pc'[p] = "done" \/ slot'[p] = NoCat)
             /\ (pc[p] # "done" /\ pc'[p] = "done" /\ ret'[p].status = "ok")
                => slot'[p] = ret'[p].cat]_vars

\* The local records of the call: the scan of annex_dir, else the stored file.
LocalRecords(p) ==
    IF call[p].annex # "None" THEN loc[p].lrec ELSE localfile.items

\* C10 as stated: a load with local=True or an annex_dir that returns, returns
\* a catalog in which every key of the local records maps to the local record.
C10_LocalLoadReturnsMerged ==
    \A p \in Procs :
        (pc[p] = "done" /\ call[p].kind = "load" /\ ret[p].status = "ok"
           /\ call[p].tag = ""
           /\ (call[p].local \/ call[p].annex # "None"))
        => \A i \in DOMAIN LocalRecords(p) :
              LET r == LocalRecords(p)[i]
                  got == ret[p].cat.items
              IN  HasKey(got, r.k) /\ got[IndexOf(got, r.k)].src = "local"

\* The record the merge leaves under the key of local record r, given the
\* records of the snapshot that was loaded.
Overlaid(r, remote) ==
    IF HasKey(remote, r.k) /\ remote[IndexOf(remote, r.k)].doi # 0
    THEN [r EXCEPT !.doi = remote[IndexOf(remote, r.k)].doi]
    ELSE r

\* C10 amended: the same for a load that did not answer from the slot (the
\* slot was empty or ignore_cached was set); the local record carries the
\* DOI_versions of the snapshot's record where that has one.
C10_UncachedLocalLoadReturnsMerged ==
    \A p \in Procs :
        (pc[p] = "done" /\ call[p].kind = "load" /\ ret[p].status = "ok"
           /\ call[p].tag = ""
           /\ (call[p].local \/ call[p].annex # "None")
           /\ "hit" \notin eff[p])
        => \A i \in DOMAIN LocalRecords(p) :
              LET r == LocalRecords(p)[i]
                  got == ret[p].cat.items
                  remote == fs[CachePath(ret[p].cat.tag)].body.items
              IN  /\ HasKey(got, r.k)
                  /\ got[IndexOf(got, r.k)] = Overlaid(r, remote)

\* load(local=True) on an empty slot returned a catalog holding a key that
\* only the stored local file has.
C10_Witness ==
    \E p \in Procs :
        /\ pc[p] = "done" /\ call[p].kind = "load" /\ ret[p].status = "ok"
        /\ call[p].local /\ call[p].annex = "None" /\ "hit" \notin eff[p]
        /\ localfile.present
        /\ \E i \in DOMAIN localfile.items :
              ~HasKey(RemoteItems, localfile.items[i].k)

\* C11: a load with a non-empty tag and local=True or an annex_dir, on an
\* empty or ignored slot, raises the configuration error in its first step:
\* no scan, no release lookup, no download, and the files, the stored local
\* file and the slot are as they were.
C11_TagWithLocalRejected ==
    [][\A p \in Procs :
          (pc[p] = "idle" /\ pc'[p] # "idle" /\ call'[p].kind = "load"
             /\ (slot[p] = NoCat \/ call'[p].ic)
             /\ call'[p].tag # ""
             /\ (call'[p].local \/ call'[p].annex # "None"))
          => /\ pc'[p] = "done"
             /\ ret'[p] = Raise(<<E_Config>>)
             /\ eff'[p] = {}
             /\ seen'[p] = {}
             /\ fs' = fs
             /\ localfile' = localfile
             /\ slot' = slot]_vars

\* load(tag="v1", annex_dir=...) on an empty slot raised the configuration
\* error.
C11_Witness ==
    \E p \in Procs :
        /\ pc[p] = "done" /\ call[p].kind = "load"
        /\ call[p].tag = "v1" /\ call[p].annex = "dir" /\ ~call[p].local
        /\ slot[p] = NoCat
        /\ ret[p] = Raise(<<E_Config>>)

\* C12: in the step that merges, every key whose record in the catalog
\* obtained from the loader had DOI_versions has that same value in the
\* merged catalog, whether the local record of the key omits the field,
\* alters it, or does not exist.
C12_MergeKeepsRemoteDoi ==
    [][\A p \in Procs :
          ("merge" \in eff'[p] /\ "merge" \notin eff[p])
          => LET remote == IF "hit" \in eff'[p] THEN slot[p].items
                           ELSE SortByKey(fs[CachePath(loc[p].tag)].body.items)
                 got == ret'[p].cat.items
             IN  \A i \in DOMAIN remote :
                    remote[i].doi # 0
                    => /\ HasKey(got, remote[i].k)
                       /\ got[IndexOf(got, remote[i].k)].doi = remote[i].doi]_vars

\* A merge replaced the record of key 2 by a local record that altered
\* DOI_versions, and the merged record has the value of the snapshot.
C12_Witness ==
    \E p \in Procs :
        /\ pc[p] = "done" /\ ret[p].status = "ok"
        /\ "merge" \in eff[p] /\ "hit" \notin eff[p]
        /\ \E i \in DOMAIN loc[p].lrec :
              loc[p].lrec[i].k = 2 /\ loc[p].lrec[i].doi = 2
        /\ \E i \in DOMAIN ret[p].cat.items :
              ret[p].cat.items[i] = [k |-> 2, src |-> "local", doi |-> 1]

\* C13: a merge leaves the catalog held in the slot with the keys and the
\* records it had.
C13_MergeLeavesSlotCatalog ==
    [][\A p \in Procs :
          (slot[p] # NoCat /\ "merge" \in eff'[p] /\ "merge" \notin eff[p])
          => slot'[p].items = slot[p].items]_vars

\* Strictly increasing keys: sorted, and no key twice.
KeysSorted(items) ==
    \A i \in 1..(Len(items) - 1) : items[i].k < items[i + 1].k

\* C14: every catalog returned by load, reload or Simulations.local has
\* its keys in increasing order, no key twice.
C14_ReturnedCatalogSorted ==
    \A p \in Procs :
        (pc[p] = "done" /\ ret[p].status = "ok") => KeysSorted(ret[p].cat.items)

\* The walk comes to directory d: no directory above it is hidden or was
\* processed as a simulation.
RECURSIVE Walked(_)
Walked(d) ==
    \/ d = 0
    \/ /\ Walked(Parent(d))
       /\ ~KindOf(Parent(d)).hidden
       /\ ~(KindOf(Parent(d)).marker /\ HasLev(KindOf(Parent(d))))

\* Directory d is processed as a simulation.
IsRoot(d) ==
    Walked(d) /\ ~KindOf(d).hidden /\ KindOf(d).marker /\ HasLev(KindOf(d))

HasRecord(w, d, complete) ==
    \E i \in DOMAIN w.simulations :
        w.simulations[i].directory = d /\ w.simulations[i].complete = complete

\* C15: the metadata of a simulation whose Lev subdirectories are all Lev
\* followed by digits is taken from the one with the highest number.
C15_HighestLevIsNumeric ==
    \A i \in DOMAIN walk.simulations :
        LET r == walk.simulations[i]
            levs == KindOf(r.directory).levs
        IN  (\A l \in levs : AllDigits(l))
            => \A l \in levs : LevNumber(l) <= LevNumber(r.highest_lev)

\* C16: an exception raised while a simulation is processed is caught and
\* the walk goes on with the next directory; a KeyboardInterrupt ends the
\* scan, which then never returns a result; and when the scan returns, every
\* simulation whose processing raised nothing has its record, whatever
\* happened to the others.
C16_ExceptionsCaughtInterruptNot ==
    [][/\ (walk'.tried # walk.tried /\ walk'.raised = "Exception")
          => /\ walk'.status = "walking"
             /\ walk'.todo = Tail(walk.todo)
             /\ Head(walk.todo) \in walk'.log
       /\ (walk'.tried # walk.tried /\ walk'.raised = "KeyboardInterrupt")
          => walk'.status = "interrupted"
       /\ walk.status = "interrupted" => walk' = walk
       /\ walk'.status = "returned"
          => \A d \in Dirs :
                IsRoot(d) => d \in walk'.log \/ HasRecord(walk', d, TRUE)]_vars

\* The scan returned; the processing of directory 1 raised an exception and
\* directory 3, walked after it, has its record.
C16_Witness ==
    /\ walk.status = "returned"
    /\ 1 \in walk.log
    /\ 3 \notin walk.log /\ HasRecord(walk, 3, TRUE)

\* C17: a directory is processed as a simulation exactly when it holds
\* common-metadata.txt and a subdirectory named Lev followed by digits; one
\* that holds the file and no such subdirectory gives no record and no error.
C17_RootNeedsLevDigits ==
    \A d \in Dirs :
        LET kind == KindOf(d)
            levDigits == \E l \in kind.levs : AllDigits(l)
        IN  /\ d \in walk.tried => kind.marker /\ levDigits
            /\ (kind.marker /\ ~levDigits)
               => /\ d \notin walk.tried /\ d \notin walk.log
                  /\ ~HasRecord(walk, d, TRUE) /\ ~HasRecord(walk, d, FALSE)
            /\ (walk.status = "returned" /\ Walked(d) /\ ~kind.hidden
                  /\ kind.marker /\ levDigits)
               => d \in walk.tried

\* The file of the same directory and stem with the other of the suffixes
\* .json and .h5 is in the listing.
SiblingListed(file, listing) ==
    \E g \in listing :
        /\ g.dir = file.dir /\ g.stem = file.stem
        /\ \/ (file.sfx = "json" /\ g.sfx = "h5")
           \/ (file.sfx = "h5" /\ g.sfx = "json")

\* C18: file_upload_allowed is true exactly for metadata.json, for
\* Horizons.h5, and for a name starting with Strain_ or ExtraWaveforms with
\* suffix .json or .h5 whose file of the other suffix is in the listing.
C18_UploadAllowedExactly ==
    upload.result \in {"True", "False"}
    => LET file == upload.file
           core == \/ (file.stem = <<"metadata">> /\ file.sfx = "json")
                   \/ (file.stem = <<"Horizons">> /\ file.sfx = "h5")
           prefix == file.stem[1] \in {"Strain_", "ExtraWaveforms"}
       IN  (upload.result = "True")
           <=> (core \/ (prefix /\ file.sfx \in {"json", "h5"}
                           /\ SiblingListed(file, upload.listing)))

\* Strain_N2.json was refused: the listing holds Strain_N2.h5 of the other
\* directory only.
C18_Witness ==
    /\ upload.result = "False"
    /\ upload.file = [dir |-> 1, stem |-> <<"Strain_", "N2">>, sfx |-> "json"]
    /\ [dir |-> 2, stem |-> <<"Strain_", "N2">>, sfx |-> "h5"] \in upload.listing

\* The fields of the table made of a record's field: the column itself and,
\* for the vector, its components and its magnitude.
ScalarColumnsOf ==
    [chi1 |-> {"reference_chi1_perp"},
     chi2 |-> {"reference_chi2_perp"},
     ecc |-> {"reference_eccentricity", "reference_eccentricity_bound"}]

\* C19: dataframe gives every catalog the same columns in the same order; a
\* scalar field that no record has is a column of not-a-number, and a vector
\* field that no record has is a triple of not-a-number in every row, with
\* not-a-number components and magnitude.
C19_ColumnsStable ==
    table.status \notin {"off", "none"}
    => /\ table.status = "ok"
       /\ table.columns =
             <<"deprecated", "reference_chi1_perp", "reference_chi2_perp",
               "reference_eccentricity", "reference_eccentricity_bound",
               "reference_dimensionless_spin1_x", "reference_dimensionless_spin1_y",
               "reference_dimensionless_spin1_z", "reference_dimensionless_spin1_mag",
               "reference_dimensionless_spin1", "keywords">>
       /\ Len(table.df) = Len(table.cat)
       /\ \A f \in DOMAIN ScalarColumnsOf :
             ~HasColumn(table.cat, f)
             => \A i \in DOMAIN table.df : \A c \in ScalarColumnsOf[f] :
                   table.df[i][c] = NaN
       /\ ~HasColumn(table.cat, "spin1")
          => \A i \in DOMAIN table.df :
                /\ table.df[i].spin1 = NaN3
                /\ table.df[i].spin1_x = NaN /\ table.df[i].spin1_y = NaN
                /\ table.df[i].spin1_z = NaN /\ table.df[i].spin1_mag = NaN

\* Row i is in exactly one of the two views.
InExactlyOne(i, a, b) ==
    (i \in table.views[a].keys) # (i \in table.views[b].keys)

\* C20 as stated: every row of the table is in exactly one of the views
\* eccentric and noneccentric, and in exactly one of precessing and
\* nonprecessing.
C20_ViewsPartition ==
    /\ (table.views["eccentric"].taken /\ table.views["noneccentric"].taken)
       => \A i \in DOMAIN table.df : InExactlyOne(i, "eccentric", "noneccentric")
    /\ (table.views["precessing"].taken /\ table.views["nonprecessing"].taken)
       => \A i \in DOMAIN table.df : InExactlyOne(i, "precessing", "nonprecessing")

\* C20 amended: a row whose eccentricity bound is a number is in exactly one
\* of eccentric and noneccentric, and one whose bound is not-a-number is in
\* neither; the same for precessing and nonprecessing with the sum of the
\* two perpendicular spins.
C20_ViewsPartitionNumbers ==
    /\ (table.views["eccentric"].taken /\ table.views["noneccentric"].taken)
       => \A i \in DOMAIN table.df :
             IF table.df[i].reference_eccentricity_bound.t = "num"
             THEN InExactlyOne(i, "eccentric", "noneccentric")
             ELSE /\ i \notin table.views["eccentric"].keys
                  /\ i \notin table.views["noneccentric"].keys
    /\ (table.views["precessing"].taken /\ table.views["nonprecessing"].taken)
       => \A i \in DOMAIN table.df :
             IF /\ table.df[i].reference_chi1_perp.t = "num"
                /\ table.df[i].reference_chi2_perp.t = "num"
             THEN InExactlyOne(i, "precessing", "nonprecessing")
             ELSE /\ i \notin table.views["precessing"].keys
                  /\ i \notin table.views["nonprecessing"].keys

\* All four views were taken of a table with a row whose bound is below the
\* cutoff and a row whose bound and whose sum of spins are the cutoff.
C20_Witness ==
    /\ \A n \in ViewNames : table.views[n].taken
    /\ \E i, j \in DOMAIN table.df :
          /\ table.df[i].reference_eccentricity_bound = Val("num", Cutoff)
          /\ PerpSum(i) = Val("num", Cutoff)
          /\ i \in table.views["eccentric"].keys
          /\ i \in table.views["precessing"].keys
          /\ j \in table.views["noneccentric"].keys
          /\ j \in table.views["nonprecessing"].keys

\* The classifications of the records of the call differ.
Mismatched == ObjectTypes(metric.m1, "A", "B") # ObjectTypes(metric.m2, "C", "D")

\* Every parameter of the metric has a number, or a vector, in both records.
AllNumbers ==
    \A i \in DOMAIN metric.cfg.parameters :
        /\ Value(metric.m1, metric.cfg.parameters[i]).t \in {"num", "vec"}
        /\ Value(metric.m2, metric.cfg.parameters[i]).t
             = Value(metric.m1, metric.cfg.parameters[i]).t

MassRatioExample ==
    /\ metric.status = "called"
    /\ metric.cfg.parameters = <<"reference_mass_ratio">>
    /\ metric.m1 = [reference_mass_ratio |-> Val("num", 10000)]
    /\ metric.m2 = [reference_mass1 |-> Val("num", 20000),
                    reference_mass2 |-> Val("num", 10000)]

\* C22 as stated: in the example, with the other arguments of the metric at
\* their defaults, the mass ratio derived for the second record is 2.0 and
\* the squared distance is 1.0.
C22_MassRatioExampleIsOne ==
    (MassRatioExample /\ ~metric.cfg.allow_different_object_types) =>
        /\ Value(metric.m2, "reference_mass_ratio") = Val("num", 20000)
        /\ metric.d12 = Val("num", 100000000)

\* C22: in the example the mass ratio derived for the second record is 2.0;
\* the squared distance is 1.0 when different object types are allowed and
\* infinite when they are not, as neither record says its type.
C22_MassRatioExampleIsOneIfAllowed ==
    MassRatioExample =>
        /\ Value(metric.m2, "reference_mass_ratio") = Val("num", 20000)
        /\ metric.d12 = IF metric.cfg.allow_different_object_types
                        THEN Val("num", 100000000)
                        ELSE Val("inf", 0)

\* The example was computed by a metric that allows different object types,
\* and gave 1.0.
C22_Witness ==
    /\ MassRatioExample
    /\ metric.cfg.allow_different_object_types
    /\ metric.d12 = Val("num", 100000000)

\* C23: the metric never raises when a record lacks one of the parameters: it
\* returns a number or not-a-number, or infinity for records of different
\* types.
C23_MissingParameterNeverRaises ==
    metric.status = "called" =>
        /\ metric.d12.t \in {"num", "nan", "inf"}
        /\ metric.d12.t = "inf" =>
              (Mismatched /\ ~metric.cfg.allow_different_object_types)

\* Both records of the call carry the mass ratio and the eccentricity.
BothEccentric ==
    /\ metric.cfg.parameters = <<"reference_mass_ratio", "reference_eccentricity">>
    /\ \A m \in {metric.m1, metric.m2} :
           {"reference_mass_ratio", "reference_eccentricity"} \subseteq DOMAIN m

\* The squared difference of the values field has in records a and b.
SquaredGap(field, a, b) == (a[field].v - b[field].v) * (a[field].v - b[field].v)

\* The eccentricity of record a is below threshold1, that of record b is
\* below threshold2, and b has more orbits than the threshold.
GivesWay(a, b) ==
    /\ a["reference_eccentricity"].v < eccentricity_threshold1
    /\ 0 - a["reference_eccentricity"].v < eccentricity_threshold1
    /\ b["reference_eccentricity"].v < eccentricity_threshold2
    /\ 0 - b["reference_eccentricity"].v < eccentricity_threshold2
    /\ \/ /\ "number_of_orbits" \in DOMAIN b
          /\ b["number_of_orbits"] > eccentricity_threshold_penalize_shorter
       \/ /\ "number_of_orbits" \notin DOMAIN b
          /\ "number_of_orbits_from_start" \in DOMAIN b
          /\ b["number_of_orbits_from_start"] > eccentricity_threshold_penalize_shorter

\* C24: the eccentricity of the first record counts as that of the second
\* exactly when it is below threshold1, that of the second is below
\* threshold2 and the second has more orbits than the threshold, in each
\* order of the two records; and a metric without an eccentricity among its
\* parameters gives the same result in both orders.
C24_DampeningOrderDependent ==
    metric.status = "both" =>
        /\ (BothEccentric /\ metric.d12.t = "num") =>
              metric.d12.v = SquaredGap("reference_mass_ratio", metric.m1, metric.m2)
                  + (IF GivesWay(metric.m1, metric.m2) THEN 0
                     ELSE SquaredGap("reference_eccentricity", metric.m1, metric.m2))
        /\ (BothEccentric /\ metric.d21.t = "num") =>
              metric.d21.v = SquaredGap("reference_mass_ratio", metric.m2, metric.m1)
                  + (IF GivesWay(metric.m2, metric.m1) THEN 0
                     ELSE SquaredGap("reference_eccentricity", metric.m2, metric.m1))
        /\ EccentricityIndex(metric.cfg.parameters) = 0 => metric.d12 = metric.d21

\* Two records of the same type whose distance depends on the order: the
\* eccentricity of one is below both thresholds, that of the other between
\* them.
C24_Witness ==
    /\ metric.status = "both"
    /\ BothEccentric
    /\ ~Mismatched
    /\ GivesWay(metric.m1, metric.m2) /\ ~GivesWay(metric.m2, metric.m1)
    /\ metric.d12.t = "num" /\ metric.d21.t = "num"
    /\ metric.d12 # metric.d21

\* C25: get_latest_release returns an entry of the listing with the greatest
\* published_at, and of several such entries the first of the listing.
C25_LatestReleaseFirstMaximal ==
    release.status = "returned" =>
        \E i \in DOMAIN release.listing :
            /\ release.result = release.listing[i]
            /\ \A j \in DOMAIN release.listing :
                   release.listing[j].published_at <= release.listing[i].published_at
            /\ \A j \in 1..(i - 1) :
                   release.listing[j].published_at < release.listing[i].published_at

\* Two releases of different names share the latest date, an older release
\* stands before them, and the first of the two was returned.
C25_Witness ==
    /\ release.status = "returned"
    /\ \E i, j \in DOMAIN release.listing :
          /\ 1 < i /\ i < j
          /\ release.listing[i].published_at = release.listing[j].published_at
          /\ release.listing[i].tag_name # release.listing[j].tag_name
          /\ \A k \in DOMAIN release.listing :
                 release.listing[k].published_at <= release.listing[i].published_at
          /\ release.listing[1].published_at < release.listing[i].published_at
          /\ release.result = release.listing[i]

\* The directories between annex_dir and d.
RECURSIVE Above(_)
Above(d) == IF Parent(d) = 0 THEN {} ELSE {Parent(d)} \cup Above(Parent(d))

\* C26: no record comes from a directory below a hidden directory or below a
\* directory that was processed as a simulation, whether that gave a record
\* or raised; such a directory is not even processed.
C26_NothingBelowHiddenOrRoot ==
    /\ \A d \in walk.tried :
           \A a \in Above(d) : ~KindOf(a).hidden /\ a \notin walk.tried
    /\ \A i \in DOMAIN walk.simulations :
           \A a \in Above(walk.simulations[i].directory) :
               ~KindOf(a).hidden /\ a \notin walk.tried

\* The scan returned; the processing of directory 1 raised, directory 2
\* below it holds common-metadata.txt and a Lev subdirectory, and it was not
\* processed and has no record.
C26_Witness ==
    /\ walk.status = "returned"
    /\ 1 \in walk.tried /\ 1 \in walk.log
    /\ ~KindOf(2).hidden /\ KindOf(2).marker /\ HasLev(KindOf(2))
    /\ 2 \notin walk.tried
    /\ \A i \in DOMAIN walk.simulations : walk.simulations[i].directory # 2

\* C27: a simulation in whose Lev subdirectories no file is to be uploaded
\* has no record in what the scan returns.
C27_NoFilesNoRecord ==
    walk.status = "returned" =>
        \A i \in DOMAIN walk.simulations :
            walk.simulations[i].complete => walk.simulations[i].files # {}

\* C28: every record the scan returns has directory, lev_numbers, mtime and
\* files, and a simulation whose processing raised has no record.
C28_RecordsComplete ==
    walk.status = "returned" =>
        /\ \A i \in DOMAIN walk.simulations : walk.simulations[i].complete
        /\ \A d \in walk.log :
               \A i \in DOMAIN walk.simulations : walk.simulations[i].directory # d

\* C29: whatever was called before, the table kept on a catalog has exactly
\* one row for each key the catalog now holds.
C29_TableMatchesCatalog ==
    \A p \in Procs : HasDataframe(slot[p]) => slot[p].rows = RowsOf(slot[p])

\* C30: when load has returned or raised, none of the files it writes on the
\* way is left: not the downloaded text, not the archive under its temporary
\* name, not the .part file of the download.
C30_NoTemporaryLeftBehind ==
    \A p \in Procs :
        pc[p] = "done" => \A n \in AllNames \ CacheNames : ~Present(n)

\* A load that had downloaded the text failed while writing the archive, and
\* has raised.
C30_Witness ==
    \E p \in Procs :
        /\ pc[p] = "done" /\ ret[p].status = "err"
        /\ "fetch" \in eff[p]
        /\ ret[p].err = <<"OSError">>

====
